---- MODULE Spec2Model ----
(***************************************************************************)
(* minxdr: reflection-driven XDR (RFC 4506) marshalling.                   *)
(*                                                                         *)
(* The model follows the Go source operation by operation.  An integer is  *)
(* its two's-complement bit pattern, written as a sequence of bytes, most  *)
(* significant first (a 64-bit value does not fit the integers of TLC).    *)
(* A reflect.Value is a pair (type descriptor, value).  The stream is the  *)
(* io.Writer / io.Reader the codec is bound to; every call on it is        *)
(* appended to a log, so that what was asked of the stream, and when, can  *)
(* be stated.                                                              *)
(***************************************************************************)
EXTENDS Integers, Sequences, FiniteSets, TLC

VARIABLES
    intSize,      \* bytes of the platform-width kinds int / uint of the build (4 or 8)
    customPairs,  \* the package registry: type name -> codec
    sink,         \* the io.Writer the values are marshalled to
    sent,         \* the values marshalled to the sink so far, in order
    source,       \* the io.Reader the values are unmarshalled from
    recv,         \* the values unmarshalled from the source so far, in order
    last          \* the last call of the public API and what it returned

vars == <<intSize, customPairs, sink, sent, source, recv, last>>

----------------------------------------------------------------------------
(* Bounds of the model *)

\* longest string / octet sequence / element sequence among the marshalled samples
MaxLen == 5
\* number of values marshalled one after another to one sink
MaxMsgs == 2
\* largest number of bytes a chunked reader hands out in one Read
MaxChunk == 3
\* the memory of the machine: make() and reflect.MakeSlice of more bytes or
\* elements than this end the process (fatal error: out of memory)
MaxAlloc == 1024

----------------------------------------------------------------------------
(* Sequences and bytes *)

Min(a, b) == IF a < b THEN a ELSE b

\* F applied to v: a local variable of the code, computed once and read by
\* the statements that follow
With(v, F(_)) == F(v)

Zeros(n) == [i \in 1..n |-> 0]

Take(s, n) == SubSeq(s, 1, n)

Drop(s, n) == SubSeq(s, n + 1, Len(s))

\* Go's % : the result has the sign of the dividend
GoMod(a, b) == IF a >= 0 \/ a % b = 0 THEN a % b ELSE (a % b) - b

\* the low n bytes of a bit pattern (a narrowing conversion such as int32(x))
Low(x, n) == SubSeq(x, Len(x) - n + 1, Len(x))

\* widening conversions: int64(int32), uint64(uint32)
SignExt(x, n) == [i \in 1..(n - Len(x)) |-> IF x[1] >= 128 THEN 255 ELSE 0] \o x

ZeroExt(x, n) == Zeros(n - Len(x)) \o x

\* uint32(n) for a length n >= 0 that fits an int
NatToU32(n) ==
    << (n \div 16777216) % 256, (n \div 65536) % 256, (n \div 256) % 256, n % 256 >>

\* int32(len) of a decoded uint32: the same bits read as two's complement
U32ToInt32(w) ==
    (IF w[1] >= 128 THEN w[1] - 256 ELSE w[1]) * 16777216
        + w[2] * 65536 + w[3] * 256 + w[4]

\* uint(dataLen) > uint(math.MaxInt32)
AboveMaxInt32(w) == w[1] >= 128

----------------------------------------------------------------------------
(* Errors.  nil is "no error"; a panic is not an error value, it unwinds   *)
(* the call.                                                               *)

nil == "nil"

ErrShortWrite == "short write"
ErrEOF == "EOF"
ErrInvalidBool == "invalid Boolean Value"
ErrSignedOverflow == "signed integer too large"
ErrUnsignedOverflow == "unsigned integer too large"
ErrMaxSlice == "max slice exceded"
ErrNilInterfaceEnc == "cannot encode nil interface"
ErrNilInterfaceDec == "cannot decode to nil interface"
ErrInvalidType == "type is invalid"
ErrUnsupported == "go type is unsupported"
ErrNilMarshal == "can't marshal nil interface"
ErrNilPointer == "can't marshal nil pointer"
ErrCannotAllocate == "cannot allocate pointer"
ErrUnsettable == "can't decode to unsettable"
ErrTimeEncode == "unable to enocde time.Time"
ErrTimeParse == "parsing time"
ErrUserTag == "user codec: bad tag"

PanicMakeSlice == "panic: makeslice: len out of range"
PanicSliceBounds == "panic: slice bounds out of range"
PanicZeroValue == "panic: reflect: call of reflect.Value.Type on zero Value"
PanicNilDeref == "panic: nil pointer dereference"
PanicNegativeLen == "panic: reflect.MakeSlice: negative len"
PanicUnexported == "panic: reflect.Value.Set using value obtained using unexported field"
FatalOutOfMemory == "fatal error: runtime: out of memory"

Panics ==
    {PanicMakeSlice, PanicSliceBounds, PanicZeroValue, PanicNilDeref, PanicNegativeLen,
     PanicUnexported, FatalOutOfMemory}

----------------------------------------------------------------------------
(* Types (reflect.Type) and values (reflect.Value).                        *)
(*   kind  the reflect.Kind                                                *)
(*   name  Type.String(), the key of the registry                          *)
(*   n     the length of an Array                                          *)
(*   sub   element type (Array, Slice, Ptr), <<key, elem>> (Map),          *)
(*         the field types (Struct)                                        *)
(*   vis   per field of a Struct: PkgPath = "" (the field is exported)     *)
(*   self  which receiver carries the type's Encode/Decode methods of the  *)
(*         EncodeDecode interface: "none", "value" (T and *T implement     *)
(*         it) or "pointer" (only *T implements it)                        *)
(* Values: an integer kind is its bit pattern; Bool a BOOLEAN; String, an  *)
(* Array, a Slice and a Struct a sequence; a Map the sequence of its       *)
(* <<key, value>> entries in iteration order; a Ptr and an Interface <<>>  *)
(* when nil, else <<x>>, x the pointee, respectively [t |-> dynamic type,  *)
(* v |-> dynamic value].                                                   *)

Prim(kind, name) ==
    [kind |-> kind, name |-> name, n |-> 0, sub |-> <<>>, vis |-> <<>>, self |-> "none"]

ArrayOf(name, n, elem) ==
    [kind |-> "Array", name |-> name, n |-> n, sub |-> <<elem>>, vis |-> <<>>, self |-> "none"]

SliceOf(name, elem) ==
    [kind |-> "Slice", name |-> name, n |-> 0, sub |-> <<elem>>, vis |-> <<>>, self |-> "none"]

PtrTo(name, elem) ==
    [kind |-> "Ptr", name |-> name, n |-> 0, sub |-> <<elem>>, vis |-> <<>>, self |-> "none"]

MapOf(name, key, elem) ==
    [kind |-> "Map", name |-> name, n |-> 0, sub |-> <<key, elem>>, vis |-> <<>>, self |-> "none"]

StructOf(name, fields, vis, self) ==
    [kind |-> "Struct", name |-> name, n |-> 0, sub |-> fields, vis |-> vis, self |-> self]

\* the type of the zero reflect.Value
InvalidT == Prim("Invalid", "<invalid Value>")

tInt8 == Prim("Int8", "int8")
tInt16 == Prim("Int16", "int16")
tInt32 == Prim("Int32", "int32")
tInt64 == Prim("Int64", "int64")
tInt == Prim("Int", "int")
tUint8 == Prim("Uint8", "uint8")
tUint16 == Prim("Uint16", "uint16")
tUint32 == Prim("Uint32", "uint32")
tUint64 == Prim("Uint64", "uint64")
tUint == Prim("Uint", "uint")
tBool == Prim("Bool", "bool")
tString == Prim("String", "string")
tIface == Prim("Interface", "interface {}")
tChan == Prim("Chan", "chan int")

SignedKinds == {"Int", "Int8", "Int16", "Int32", "Int64"}
UnsignedKinds == {"Uint", "Uint8", "Uint16", "Uint32", "Uint64"}
IntKinds == SignedKinds \cup UnsignedKinds

\* the size in bytes of an integer kind (Type.Size(), which Value.Int, SetInt
\* and OverflowInt switch on)
KindBytes(kind) ==
    CASE kind \in {"Int8", "Uint8"} -> 1
      [] kind \in {"Int16", "Uint16"} -> 2
      [] kind \in {"Int32", "Uint32"} -> 4
      [] kind \in {"Int64", "Uint64"} -> 8
      [] kind \in {"Int", "Uint"} -> intSize

\* Value.Int(): the stored value as an int64
ValueInt(t, v) == SignExt(v, 8)

\* Value.Uint(): the stored value as a uint64
ValueUint(t, v) == ZeroExt(v, 8)

\* Value.OverflowInt(x): x does not survive truncation to the kind's width
OverflowInt(t, x) == SignExt(Low(x, KindBytes(t.kind)), 8) # x

\* Value.OverflowUint(x)
OverflowUint(t, x) == ZeroExt(Low(x, KindBytes(t.kind)), 8) # x

\* Value.SetInt(x), Value.SetUint(x): store x truncated to the kind's width
SetInt(t, x) == Low(x, KindBytes(t.kind))

RECURSIVE Zero(_)
\* the zero value of a type (reflect.New(t).Elem(), a fresh variable)
Zero(t) ==
    CASE t.kind \in IntKinds -> Zeros(KindBytes(t.kind))
      [] t.kind = "Bool" -> FALSE
      [] t.kind = "Array" -> [i \in 1..t.n |-> Zero(t.sub[1])]
      [] t.kind = "Struct" -> [i \in 1..Len(t.sub) |-> Zero(t.sub[i])]
      [] OTHER -> <<>>

----------------------------------------------------------------------------
(* The stream log.  One event per call on the stream ("write", "read"),    *)
(* per error the codec itself raises ("raise") and per choice of the       *)
(* dispatcher ("dispatch": tag is the handler chosen, name and self are    *)
(* those of the type after indirection or, for the handler "self", of the  *)
(* type whose methods were found).                                         *)

Ev(op, req, n, err, tag, name, self) ==
    [op |-> op, req |-> req, n |-> n, err |-> err, tag |-> tag, name |-> name, self |-> self]

Logged(st, e) == [st EXCEPT !.log = Append(@, e)]

\* what an encode step returns: the stream after it, the byte count, the error
Ret(st, n, err) == [st |-> st, n |-> n, err |-> err]

\* an error the codec raises itself (fmt.Errorf / errors.New, or a panic)
Raise(st, n, err) == Ret(Logged(st, Ev("raise", 0, 0, err, "", "", "")), n, err)

\* the dispatcher took handler h for a value of type t
Dispatched(st, h, t) == Logged(st, Ev("dispatch", 0, 0, nil, h, t.name, t.self))

----------------------------------------------------------------------------
(* Encoder *)

\* s.w.Write(p) of the io.Writer the Encoder is bound to: a writer that accepts
\* st.cap bytes in all (any number when st.cap is negative) and, as io.Writer
\* requires, returns an error with every write it cuts short
Write(st, p, tag) ==
    LET room == IF st.cap < 0 THEN Len(p)
                ELSE IF st.cap > Len(st.buf) THEN st.cap - Len(st.buf) ELSE 0
        n == Min(Len(p), room)
        err == IF n < Len(p) THEN ErrShortWrite ELSE nil
    IN  Ret([st EXCEPT !.buf = @ \o Take(p, n),
                       !.log = Append(@, Ev("write", Len(p), n, err, tag, "", ""))],
            n, err)

\* binary.BigEndian.PutUint32: b[0] = byte(v >> 24) ... b[3] = byte(v)
PutUint32(v) == << v[1], v[2], v[3], v[4] >>

\* binary.BigEndian.PutUint64
PutUint64(v) == << v[1], v[2], v[3], v[4], v[5], v[6], v[7], v[8] >>

EncodeUint(st, v) ==
    With(Write(st, PutUint32(v), "data"), LAMBDA r :
        IF r.err # nil THEN Ret(r.st, r.n, r.err) ELSE Ret(r.st, r.n, nil))

\* uint32(v) keeps the bits
EncodeInt(st, v) == EncodeUint(st, v)

EncodeBool(st, v) == EncodeInt(st, IF v THEN <<0, 0, 0, 1>> ELSE <<0, 0, 0, 0>>)

EncodeUhyper(st, v) == Write(st, PutUint64(v), "data")

EncodeHyper(st, v) == EncodeUhyper(st, v)

\* pad := (4 - (l % 4)) % 4
PadOf(l) == (4 - (l % 4)) % 4

EncodeFixedOpaque_KeepsWriting(st, v) ==
    With(Write(st, v, "data"), LAMBDA r :
        IF PadOf(Len(v)) > 0
        THEN With(Write(r.st, Zeros(PadOf(Len(v))), "pad"), LAMBDA p :
                 Ret(p.st, r.n + p.n, IF r.err # nil THEN r.err ELSE p.err))
        ELSE Ret(r.st, r.n, r.err))

EncodeFixedOpaque_NoPad(st, v) ==
    With(Write(st, v, "data"), LAMBDA r : Ret(r.st, r.n, r.err))

EncodeFixedOpaque(st, v) ==
    With(Write(st, v, "data"), LAMBDA r :
        IF r.err # nil THEN Ret(r.st, r.n, r.err)
        ELSE IF PadOf(Len(v)) > 0
        THEN With(Write(r.st, Zeros(PadOf(Len(v))), "pad"), LAMBDA p :
                 IF p.err # nil THEN Ret(p.st, r.n + p.n, p.err)
                 ELSE Ret(p.st, r.n + p.n, nil))
        ELSE Ret(r.st, r.n, nil))

EncodeOpaque(st, v) ==
    With(EncodeUint(st, NatToU32(Len(v))), LAMBDA r :
        IF r.err # nil THEN Ret(r.st, r.n, r.err)
        ELSE With(EncodeFixedOpaque(r.st, v), LAMBDA r2 :
                 Ret(r2.st, r.n + r2.n, r2.err)))

\* []byte(v) of a string is its bytes
EncodeString(st, v) ==
    With(EncodeUint(st, NatToU32(Len(v))), LAMBDA r :
        IF r.err # nil THEN Ret(r.st, r.n, r.err)
        ELSE With(EncodeFixedOpaque(r.st, v), LAMBDA r2 :
                 Ret(r2.st, r.n + r2.n, r2.err)))

\* the []byte behind a sequence of uint8 elements, and back
BytesOf(v) == [i \in 1..Len(v) |-> v[i][1]]

FromBytes(b) == [i \in 1..Len(b) |-> <<b[i]>>]

\* a small non-negative int held in an integer field
SmallInt(v) == U32ToInt32(Low(SignExt(v, 8), 4))

RECURSIVE EncIndirect(_, _)
\* Encoder.indirect: Elem() of a nil pointer is the zero Value
EncIndirect(t, v) ==
    IF t.kind = "Ptr"
    THEN IF v = <<>> THEN [t |-> InvalidT, v |-> <<>>] ELSE EncIndirect(t.sub[1], v[1])
    ELSE [t |-> t, v |-> v]

----------------------------------------------------------------------------
(* Codecs that are not structural defaults.                                *)

\* --- time.Time, as far as the timestamp codec uses it: a second of the
\* minute (one digit) and a nanosecond.  Format writes the nanosecond with
\* its trailing zeros dropped and nothing when it is zero ("5.5Z", "5Z");
\* Parse accepts an optional fraction of one to nine digits.
tTime == StructOf("time.Time", <<tUint8, tUint32>>, <<FALSE, FALSE>>, "none")

Pow10(k) == CASE k = 0 -> 1 [] k = 1 -> 10 [] k = 2 -> 100 [] k = 3 -> 1000
              [] k = 4 -> 10000 [] k = 5 -> 100000 [] k = 6 -> 1000000
              [] k = 7 -> 10000000 [] k = 8 -> 100000000

NanoDigits(ns) == [i \in 1..9 |-> 48 + ((ns \div Pow10(9 - i)) % 10)]

RECURSIVE TrimZeros(_)
TrimZeros(d) == IF d # <<>> /\ d[Len(d)] = 48 THEN TrimZeros(Take(d, Len(d) - 1)) ELSE d

\* tv.Format(time.RFC3339Nano)
TimeFormat(v) ==
    LET ns == U32ToInt32(v[2])
    IN  <<48 + v[1][1]>> \o (IF ns = 0 THEN <<>> ELSE <<46>> \o TrimZeros(NanoDigits(ns)))
            \o <<90>>

IsDigit(b) == b >= 48 /\ b <= 57

\* time.Parse accepts the text
TimeParses(s) ==
    /\ Len(s) >= 2
    /\ IsDigit(s[1])
    /\ s[Len(s)] = 90
    /\ \/ Len(s) = 2
       \/ /\ Len(s) >= 4 /\ Len(s) <= 12
          /\ s[2] = 46
          /\ \A i \in 3..(Len(s) - 1) : IsDigit(s[i])

RECURSIVE DigitsValue(_, _, _)
\* the fraction digits d, read as nanoseconds
DigitsValue(d, i, acc) ==
    IF i > 9 THEN acc
    ELSE DigitsValue(d, i + 1, acc * 10 + (IF i <= Len(d) THEN d[i] - 48 ELSE 0))

\* the time.Time that time.Parse returns
TimeParse(s) ==
    << <<s[1] - 48>>,
       NatToU32(IF Len(s) = 2 THEN 0 ELSE DigitsValue(SubSeq(s, 3, Len(s) - 1), 1, 0)) >>

\* --- bytes.Buffer: buf []byte, off int, lastRead readOp, none exported
tBuf == StructOf("bytes.Buffer", <<SliceOf("[]uint8", tUint8), tInt, tInt8>>,
                 <<FALSE, FALSE, FALSE>>, "none")

\* --- types of the caller.  V carries Encode/Decode on the value receiver, P
\* on the pointer receiver, R carries none; each is struct { X uint32 }.
tV == StructOf("main.V", <<tUint32>>, <<TRUE>>, "value")
tP == StructOf("main.P", <<tUint32>>, <<TRUE>>, "pointer")
tR == StructOf("main.R", <<tUint32>>, <<TRUE>>, "none")

UserTag == <<192, 222, 0, 1>>

\* v.Interface().(EncodeDecode) succeeds: the method set of the dynamic type
\* holds Encode and Decode.  *T has the methods of T; **T has none.
Implements(t, v) ==
    CASE t.kind = "Interface" ->
            /\ v # <<>>
            /\ IF v[1].t.kind = "Ptr"
               THEN v[1].t.sub[1].self \in {"value", "pointer"}
               ELSE v[1].t.self = "value"
      [] t.kind = "Ptr" -> t.sub[1].self \in {"value", "pointer"}
      [] OTHER -> t.self = "value"

\* the struct the method is called on, <<>> when the pointer is nil
Receiver(t, v) ==
    CASE t.kind = "Interface" ->
            IF v[1].t.kind = "Ptr" THEN v[1].v ELSE <<v[1].v>>
      [] t.kind = "Ptr" -> v
      [] OTHER -> <<v>>

\* the type whose Encode/Decode methods the probe found
Implementor(t, v) ==
    CASE t.kind = "Interface" ->
            IF v[1].t.kind = "Ptr" THEN v[1].t.sub[1] ELSE v[1].t
      [] t.kind = "Ptr" -> t.sub[1]
      [] OTHER -> t

\* EncodeDecode.Encode of the caller's type: a tag, then X
UserEncode(st, t, v) ==
    IF Receiver(t, v) = <<>> THEN Raise(st, 0, PanicNilDeref)
    ELSE With(EncodeUint(st, UserTag), LAMBDA r :
             IF r.err # nil THEN r
             ELSE With(EncodeUint(r.st, Receiver(t, v)[1][1]), LAMBDA r2 :
                      Ret(r2.st, r.n + r2.n, r2.err)))

\* timeEncDec.Encode
timeEncode(st, t, v) ==
    IF t.name = "time.Time" THEN EncodeString(st, TimeFormat(v))
    ELSE Raise(st, 0, ErrTimeEncode)

\* byteBufEncDec.Encode: buf[off:]
byteBufEncode(st, t, v) ==
    IF SmallInt(v[2]) > Len(v[1]) THEN Raise(st, 0, PanicSliceBounds)
    ELSE EncodeOpaque(st, Drop(BytesOf(v[1]), SmallInt(v[2])))

\* EncDecPair.Encode of a codec the caller registers: X as an unsigned hyper
userPairEncode(st, t, v) == EncodeUhyper(st, ZeroExt(v[1], 8))

\* v.Encode(s, val) of the registered codec
PairEncode(codec, st, t, v) ==
    CASE codec = "timeEncDec" -> timeEncode(st, t, v)
      [] codec = "byteBufEncDec" -> byteBufEncode(st, t, v)
      [] codec = "userPair" -> userPairEncode(st, t, v)

----------------------------------------------------------------------------
(* The encode dispatcher and the composite handlers *)

RECURSIVE encode(_, _, _)
RECURSIVE encodeElems(_, _, _, _, _)
RECURSIVE encodeEntries(_, _, _, _, _)
RECURSIVE encodeFields(_, _, _, _, _)

\* encodeFixedArray, the loop over the elements
encodeElems(st, et, v, i, bw) ==
    IF i > Len(v) THEN Ret(st, bw, nil)
    ELSE With(encode(st, et, v[i]), LAMBDA r :
             IF r.err # nil THEN Ret(r.st, bw + r.n, r.err)
             ELSE encodeElems(r.st, et, v, i + 1, bw + r.n))

\* v.CanAddr() or not, the bytes handed to EncodeFixedOpaque are the elements
encodeFixedArray(st, t, v) ==
    IF t.sub[1].kind = "Uint8" THEN EncodeFixedOpaque(st, BytesOf(v))
    ELSE encodeElems(st, t.sub[1], v, 1, 0)

encodeArray(st, t, v) ==
    With(EncodeUint(st, NatToU32(Len(v))), LAMBDA r :
        IF r.err # nil THEN Ret(r.st, r.n, r.err)
        ELSE With(encodeFixedArray(r.st, t, v), LAMBDA r2 :
                 Ret(r2.st, r.n + r2.n, r2.err)))

\* encodeMap, the loop over v.MapKeys()
encodeEntries(st, t, v, i, bw) ==
    IF i > Len(v) THEN Ret(st, bw, nil)
    ELSE With(encode(st, t.sub[1], v[i][1]), LAMBDA rk :
             IF rk.err # nil THEN Ret(rk.st, bw + rk.n, rk.err)
             ELSE With(encode(rk.st, t.sub[2], v[i][2]), LAMBDA rv :
                      IF rv.err # nil THEN Ret(rv.st, bw + rk.n + rv.n, rv.err)
                      ELSE encodeEntries(rv.st, t, v, i + 1, bw + rk.n + rv.n)))

encodeMap(st, t, v) ==
    With(EncodeUint(st, NatToU32(Len(v))), LAMBDA r :
        IF r.err # nil THEN Ret(r.st, r.n, r.err)
        ELSE encodeEntries(r.st, t, v, 1, r.n))

\* encodeStruct, the loop over the fields
encodeFields(st, t, v, i, bw) ==
    IF i > Len(t.sub) THEN Ret(st, bw, nil)
    ELSE IF ~t.vis[i] THEN encodeFields(st, t, v, i + 1, bw)
    ELSE With(EncIndirect(t.sub[i], v[i]), LAMBDA vf :
             With(encode(st, vf.t, vf.v), LAMBDA r :
                 IF r.err # nil THEN Ret(r.st, bw + r.n, r.err)
                 ELSE encodeFields(r.st, t, v, i + 1, bw + r.n)))

encodeStruct(st, t, v) == encodeFields(st, t, v, 1, 0)

\* the holder was reached through exported fields, so CanInterface holds
encodeInterface(st, t, v) ==
    IF v = <<>> THEN Raise(st, 0, ErrNilInterfaceEnc)
    ELSE With(EncIndirect(v[1].t, v[1].v), LAMBDA ve : encode(st, ve.t, ve.v))

\* the switch on val.Kind()
encodeKind(st, t, v) ==
    CASE t.kind \in {"Int8", "Int16", "Int32", "Int"} ->
            EncodeInt(st, Low(ValueInt(t, v), 4))
      [] t.kind \in {"Uint8", "Uint16", "Uint32", "Uint"} ->
            EncodeUint(st, Low(ValueUint(t, v), 4))
      [] t.kind = "Int64" -> EncodeHyper(st, ValueInt(t, v))
      [] t.kind = "Uint64" -> EncodeUhyper(st, ValueUint(t, v))
      [] t.kind = "Bool" -> EncodeBool(st, v)
      [] t.kind = "String" -> EncodeString(st, v)
      [] t.kind = "Array" -> encodeFixedArray(st, t, v)
      [] t.kind = "Slice" -> encodeArray(st, t, v)
      [] t.kind = "Struct" -> encodeStruct(st, t, v)
      [] t.kind = "Map" -> encodeMap(st, t, v)
      [] t.kind = "Interface" -> encodeInterface(st, t, v)
      [] OTHER -> Raise(st, 0, ErrUnsupported)

\* the EncodeDecode probe of encode: on v, the value before indirection
encodeProbe(t, v) == Implements(t, v)

encode(st, t, v) ==
    IF t.kind = "Invalid" THEN Raise(st, 0, ErrInvalidType)
    ELSE With(EncIndirect(t, v), LAMBDA val :
             IF encodeProbe(t, v)
             THEN UserEncode(Dispatched(st, "self", Implementor(t, v)), t, v)
             ELSE IF val.t.kind = "Invalid" THEN Raise(st, 0, PanicZeroValue)
             ELSE IF val.t.name \in DOMAIN customPairs
             THEN PairEncode(customPairs[val.t.name], Dispatched(st, "registry", val.t),
                             val.t, val.v)
             ELSE encodeKind(Dispatched(st, "kind", val.t), val.t, val.v))

RECURSIVE Encode(_, _, _)
\* Encoder.Encode: v == nil is the nil interface; pointers are followed
Encode(st, t, v) ==
    IF t.kind = "Interface" /\ v = <<>> THEN Raise(st, 0, ErrNilMarshal)
    ELSE IF t.kind = "Ptr"
    THEN IF v = <<>> THEN Raise(st, 0, ErrNilPointer) ELSE Encode(st, t.sub[1], v[1])
    ELSE encode(st, t, v)

\* Marshal: a fresh Encoder bound to w
Marshal(w, t, v) == Encode(w, t, v)

----------------------------------------------------------------------------
(* Decoder primitives *)

\* what a decode step returns: stream, byte count, error, the value decoded
\* (a primitive) or the target after the step (the dispatcher and handlers)
DRet(st, n, err, val) == [st |-> st, n |-> n, err |-> err, val |-> val]

DRaise(st, n, err, val) == DRet(Logged(st, Ev("raise", 0, 0, err, "", "", "")), n, err, val)

\* s.r.Read(b) with len(b) = size, of the io.Reader the Decoder is bound to.
\* The reader hands out at most st.chunk bytes per call (all it has when
\* st.chunk is 0, as a bytes.Buffer does), returns io.EOF when it has none for a non-empty b, and for an
\* empty b at the end of the data returns nil (bytes.Buffer) or io.EOF
\* (bytes.Reader, st.zeroEOF).  b is the buffer after the call: make() zeroed it.
Read(st, size) ==
    LET avail == Len(st.data) - st.pos
        n == IF st.chunk = 0 THEN Min(size, avail) ELSE Min(Min(size, avail), st.chunk)
        err == IF avail = 0 /\ (size > 0 \/ st.zeroEOF) THEN ErrEOF ELSE nil
    IN  [st |-> [st EXCEPT !.pos = @ + n,
                           !.log = Append(@, Ev("read", size, n, err, "data", "", ""))],
         n |-> n, err |-> err,
         b |-> SubSeq(st.data, st.pos + 1, st.pos + n) \o Zeros(size - n)]

\* binary.BigEndian.Uint32 / Uint64
Uint32(b) == << b[1], b[2], b[3], b[4] >>

Uint64(b) == << b[1], b[2], b[3], b[4], b[5], b[6], b[7], b[8] >>

DecodeUint(st) ==
    With(Read(st, 4), LAMBDA r :
        IF r.err # nil THEN DRet(r.st, r.n, r.err, Zeros(4))
        ELSE DRet(r.st, r.n, nil, Uint32(r.b)))

\* int32(dat) keeps the bits
DecodeInt(st) ==
    With(DecodeUint(st), LAMBDA r :
        IF r.err # nil THEN DRet(r.st, r.n, r.err, Zeros(4))
        ELSE DRet(r.st, r.n, r.err, r.val))

DecodeBool(st) ==
    With(DecodeInt(st), LAMBDA r :
        IF r.err # nil THEN DRet(r.st, r.n, r.err, FALSE)
        ELSE CASE r.val = <<0, 0, 0, 0>> -> DRet(r.st, r.n, nil, FALSE)
               [] r.val = <<0, 0, 0, 1>> -> DRet(r.st, r.n, nil, TRUE)
               [] OTHER -> DRaise(r.st, r.n, ErrInvalidBool, FALSE))

DecodeUhyper(st) ==
    With(Read(st, 8), LAMBDA r :
        IF r.err # nil THEN DRet(r.st, r.n, r.err, Zeros(8))
        ELSE DRet(r.st, r.n, nil, Uint64(r.b)))

DecodeHyper(st) ==
    With(DecodeUhyper(st), LAMBDA r :
        IF r.err # nil THEN DRet(r.st, r.n, r.err, Zeros(8))
        ELSE DRet(r.st, r.n, nil, r.val))

\* pad := (4 - (len % 4)) % 4 of an int32 len
PadOfInt32(len) == GoMod(4 - GoMod(len, 4), 4)

\* len is an int32.  paddedSize = len + pad wraps at 2^31; make() panics on a
\* negative size and b[:len] on a negative len.
DecodeFixedOpaque(st, len) ==
    IF len > 2147483647 - PadOfInt32(len) \/ len + PadOfInt32(len) < 0
    THEN DRaise(st, 0, PanicMakeSlice, <<>>)
    ELSE IF len + PadOfInt32(len) > MaxAlloc THEN DRaise(st, 0, FatalOutOfMemory, <<>>)
    ELSE With(Read(st, len + PadOfInt32(len)), LAMBDA r :
             IF r.err # nil THEN DRet(r.st, r.n, r.err, <<>>)
             ELSE IF len < 0 THEN DRaise(r.st, r.n, PanicSliceBounds, <<>>)
             ELSE DRet(r.st, r.n, r.err, Take(r.b, len)))

DecodeOpaque(st) ==
    With(DecodeUint(st), LAMBDA r :
        IF r.err # nil THEN DRet(r.st, r.n, r.err, <<>>)
        ELSE With(DecodeFixedOpaque(r.st, U32ToInt32(r.val)), LAMBDA r2 :
                 DRet(r2.st, r.n + r2.n, r2.err, r2.val)))

DecodeString(st) ==
    With(DecodeUint(st), LAMBDA r :
        IF r.err # nil THEN DRet(r.st, r.n, r.err, <<>>)
        ELSE IF AboveMaxInt32(r.val) THEN DRaise(r.st, r.n, ErrMaxSlice, <<>>)
        ELSE With(DecodeFixedOpaque(r.st, U32ToInt32(r.val)), LAMBDA r2 :
                 IF r2.err # nil THEN DRet(r2.st, r.n + r2.n, r2.err, <<>>)
                 ELSE DRet(r2.st, r.n + r2.n, nil, r2.val)))

----------------------------------------------------------------------------
(* The decode dispatcher and the composite handlers.  Each takes the       *)
(* target's type and current value and returns the target after the step.  *)

RECURSIVE DecIndirect(_, _, _, _)
\* Decoder.indirect: follows pointers, allocating the nil ones; a nil pointer
\* that cannot be set is an error.  Elem() of a pointer can be set.
DecIndirect(t, v, canSet, depth) ==
    IF t.kind = "Ptr"
    THEN IF v = <<>> /\ ~canSet
         THEN [err |-> ErrCannotAllocate, t |-> t, v |-> v, depth |-> depth, canSet |-> canSet]
         ELSE DecIndirect(t.sub[1], IF v = <<>> THEN Zero(t.sub[1]) ELSE v[1], TRUE, depth + 1)
    ELSE [err |-> nil, t |-> t, v |-> v, depth |-> depth, canSet |-> canSet]

RECURSIVE Wrap(_, _)
\* the target whose pointers, depth deep, lead to x
Wrap(x, depth) == IF depth = 0 THEN x ELSE Wrap(<<x>>, depth - 1)

\* the method of a pointer receiver stores through the pointer; the method of a
\* value receiver works on a copy
StoresThrough(t, v) ==
    /\ t.kind = "Interface"
    /\ v[1].t.kind = "Ptr"
    /\ v[1].t.sub[1].self = "pointer"

\* EncodeDecode.Decode of the caller's type: the tag, then X
UserDecode(st, t, v) ==
    IF Receiver(t, v) = <<>> THEN DRaise(st, 0, PanicNilDeref, v)
    ELSE With(DecodeUint(st), LAMBDA r :
             IF r.err # nil THEN DRet(r.st, r.n, r.err, v)
             ELSE IF r.val # UserTag THEN DRaise(r.st, r.n, ErrUserTag, v)
             ELSE With(DecodeUint(r.st), LAMBDA r2 :
                      IF r2.err # nil THEN DRet(r2.st, r.n + r2.n, r2.err, v)
                      ELSE DRet(r2.st, r.n + r2.n, nil,
                                IF StoresThrough(t, v)
                                THEN << [t |-> v[1].t, v |-> << <<r2.val>> >>] >>
                                ELSE v)))

\* timeEncDec.Decode
timeDecode(st, t, v) ==
    With(DecodeString(st), LAMBDA r :
        IF r.err # nil THEN DRet(r.st, r.n, r.err, v)
        ELSE IF ~TimeParses(r.val) THEN DRaise(r.st, r.n, ErrTimeParse, v)
        ELSE DRet(r.st, r.n, nil, TimeParse(r.val)))

\* byteBufEncDec.Decode: buf, off and lastRead are unexported fields of
\* bytes.Buffer, and reflect refuses to Set a Value obtained from one
byteBufDecode(st, t, v) ==
    With(DecodeOpaque(st), LAMBDA r :
        IF r.err # nil THEN DRet(r.st, r.n, r.err, v)
        ELSE DRaise(r.st, r.n, PanicUnexported, v))

\* EncDecPair.Decode of the codec the caller registers
userPairDecode(st, t, v) ==
    With(DecodeUhyper(st), LAMBDA r :
        IF r.err # nil THEN DRet(r.st, r.n, r.err, v)
        ELSE DRet(r.st, r.n, nil, <<Low(r.val, 4)>>))

PairDecode(codec, st, t, v) ==
    CASE codec = "timeEncDec" -> timeDecode(st, t, v)
      [] codec = "byteBufEncDec" -> byteBufDecode(st, t, v)
      [] codec = "userPair" -> userPairDecode(st, t, v)

\* i < len for the uint32 len
BelowU32(i, w) == AboveMaxInt32(w) \/ i < U32ToInt32(w)

\* v.SetMapIndex(key, val): the entry of an equal key is replaced
SetMapIndex(m, k, x) ==
    IF \E j \in 1..Len(m) : m[j][1] = k
    THEN [j \in 1..Len(m) |-> IF m[j][1] = k THEN <<k, x>> ELSE m[j]]
    ELSE Append(m, <<k, x>>)

RECURSIVE decode(_, _, _)
RECURSIVE decodeElems(_, _, _, _, _)
RECURSIVE decodeEntries(_, _, _, _, _, _)
RECURSIVE decodeFields(_, _, _, _, _)

\* the loop of decodeFixedArray and of decodeArray over the element slots
decodeElems(st, et, v, i, br) ==
    IF i > Len(v) THEN DRet(st, br, nil, v)
    ELSE With(decode(st, et, v[i]), LAMBDA r :
             IF r.err # nil THEN DRet(r.st, br + r.n, r.err, [v EXCEPT ![i] = r.val])
             ELSE decodeElems(r.st, et, [v EXCEPT ![i] = r.val], i + 1, br + r.n))

decodeFixedArray(st, t, v) ==
    IF t.sub[1].kind = "Uint8"
    THEN With(DecodeFixedOpaque(st, Len(v)), LAMBDA r :
             IF r.err # nil THEN DRet(r.st, r.n, r.err, v)
             ELSE DRet(r.st, r.n, nil, FromBytes(r.val)))
    ELSE decodeElems(st, t.sub[1], v, 1, 0)

\* reflect.MakeSlice(v.Type(), int(len), int(len))
MakeSlice(t, len) == [i \in 1..len |-> Zero(t.sub[1])]

\* int(len) is negative on a 32-bit build for len >= 2^31 and MakeSlice panics;
\* on a 64-bit build the runtime is asked for 2^31 elements or more
decodeArray(st, t, v) ==
    With(DecodeUint(st), LAMBDA r :
        IF r.err # nil THEN DRet(r.st, r.n, r.err, v)
        ELSE IF AboveMaxInt32(r.val)
        THEN DRaise(r.st, r.n, IF intSize = 4 THEN PanicNegativeLen ELSE FatalOutOfMemory, v)
        ELSE IF U32ToInt32(r.val) > MaxAlloc THEN DRaise(r.st, r.n, FatalOutOfMemory, v)
        ELSE IF t.sub[1].kind = "Uint8"
        THEN With(DecodeFixedOpaque(r.st, U32ToInt32(r.val)), LAMBDA r2 :
                 IF r2.err # nil
                 THEN DRet(r2.st, r.n + r2.n, r2.err,
                           IF r2.err \in Panics THEN v
                           ELSE MakeSlice(t, U32ToInt32(r.val)))
                 ELSE DRet(r2.st, r.n + r2.n, nil, FromBytes(r2.val)))
        ELSE decodeElems(r.st, t.sub[1], MakeSlice(t, U32ToInt32(r.val)), 1, 0))

\* the loop of decodeMap over the count entries; m is the map so far
decodeEntries(st, t, count, i, br, m) ==
    IF ~BelowU32(i, count) THEN DRet(st, br, nil, m)
    ELSE With(decode(st, t.sub[1], Zero(t.sub[1])), LAMBDA rk :
             IF rk.err # nil THEN DRet(rk.st, br + rk.n, rk.err, m)
             ELSE With(decode(rk.st, t.sub[2], Zero(t.sub[2])), LAMBDA rv :
                      IF rv.err # nil THEN DRet(rv.st, br + rk.n + rv.n, rv.err, m)
                      ELSE decodeEntries(rv.st, t, count, i + 1, br + rk.n + rv.n,
                                         SetMapIndex(m, rk.val, rv.val))))

decodeMap(st, t, v) ==
    With(DecodeUint(st), LAMBDA r :
        IF r.err # nil THEN DRet(r.st, r.n, r.err, v)
        ELSE decodeEntries(r.st, t, r.val, 0, r.n, <<>>))

\* decodeFields without the test of tf.PkgPath: every field is decoded into
decodeFields_IntoHidden(st, t, v, i, br) ==
    IF i > Len(t.sub) THEN DRet(st, br, nil, v)
    ELSE With(DecIndirect(t.sub[i], v[i], TRUE, 0), LAMBDA vf :
             IF vf.err # nil THEN DRaise(st, br, vf.err, v)
             ELSE IF ~vf.canSet THEN DRaise(st, br, ErrUnsettable, v)
             ELSE With(decode(st, vf.t, vf.v), LAMBDA r :
                      IF r.err # nil
                      THEN DRet(r.st, br + r.n, r.err, [v EXCEPT ![i] = Wrap(r.val, vf.depth)])
                      ELSE decodeFields(r.st, t, [v EXCEPT ![i] = Wrap(r.val, vf.depth)],
                                        i + 1, br + r.n)))

\* the loop of decodeStruct over the fields; a field of an addressable struct
\* that is exported can be set
decodeFields(st, t, v, i, br) ==
    IF i > Len(t.sub) THEN DRet(st, br, nil, v)
    ELSE IF ~t.vis[i] THEN decodeFields(st, t, v, i + 1, br)
    ELSE With(DecIndirect(t.sub[i], v[i], TRUE, 0), LAMBDA vf :
             IF vf.err # nil THEN DRaise(st, br, vf.err, v)
             ELSE IF ~vf.canSet THEN DRaise(st, br, ErrUnsettable, v)
             ELSE With(decode(st, vf.t, vf.v), LAMBDA r :
                      IF r.err # nil
                      THEN DRet(r.st, br + r.n, r.err, [v EXCEPT ![i] = Wrap(r.val, vf.depth)])
                      ELSE decodeFields(r.st, t, [v EXCEPT ![i] = Wrap(r.val, vf.depth)],
                                        i + 1, br + r.n)))

decodeStruct(st, t, v) == decodeFields(st, t, v, 1, 0)

\* v.CanInterface() holds (the holder was reached through exported fields), so
\* the first test never fires.  reflect.ValueOf(v.Interface()) of a nil holder
\* is the zero Value: it cannot be set, and Type() of it, called for the error
\* text, panics.  A concrete value that is no pointer is a copy and cannot be set.
decodeInterface(st, t, v) ==
    IF v = <<>> THEN DRaise(st, 0, PanicZeroValue, v)
    ELSE With(DecIndirect(v[1].t, v[1].v, FALSE, 0), LAMBDA ve :
             IF ve.err # nil THEN DRaise(st, 0, ve.err, v)
             ELSE IF ~ve.canSet THEN DRaise(st, 0, ErrUnsettable, v)
             ELSE With(decode(st, ve.t, ve.v), LAMBDA r :
                      DRet(r.st, r.n, r.err,
                           << [t |-> v[1].t, v |-> Wrap(r.val, ve.depth)] >>)))

\* case reflect.Int, Int8, Int16, Int32 of decode
decodeInt(st, t, v) ==
    With(DecodeInt(st), LAMBDA r :
        IF r.err # nil THEN DRet(r.st, r.n, r.err, v)
        ELSE IF OverflowInt(t, SignExt(r.val, 8))
        THEN DRaise(r.st, r.n, ErrSignedOverflow, v)
        ELSE DRet(r.st, r.n, nil, SetInt(t, SignExt(r.val, 8))))

\* case reflect.Uint, Uint8, Uint16, Uint32 of decode
decodeUint(st, t, v) ==
    With(DecodeUint(st), LAMBDA r :
        IF r.err # nil THEN DRet(r.st, r.n, r.err, v)
        ELSE IF OverflowUint(t, ZeroExt(r.val, 8))
        THEN DRaise(r.st, r.n, ErrUnsignedOverflow, v)
        ELSE DRet(r.st, r.n, nil, SetInt(t, ZeroExt(r.val, 8))))

\* the cases that decode a primitive and store it: a failed one leaves the
\* target as it was
Stored(r, v, x) == IF r.err # nil THEN DRet(r.st, r.n, r.err, v) ELSE DRet(r.st, r.n, nil, x)

\* the switch on val.Kind()
decodeKind(st, t, v) ==
    CASE t.kind \in {"Int", "Int8", "Int16", "Int32"} -> decodeInt(st, t, v)
      [] t.kind \in {"Uint", "Uint8", "Uint16", "Uint32"} -> decodeUint(st, t, v)
      [] t.kind = "Int64" ->
            With(DecodeHyper(st), LAMBDA r : Stored(r, v, SetInt(t, r.val)))
      [] t.kind = "Uint64" ->
            With(DecodeUhyper(st), LAMBDA r : Stored(r, v, SetInt(t, r.val)))
      [] t.kind = "Bool" ->
            With(DecodeBool(st), LAMBDA r : Stored(r, v, r.val))
      [] t.kind = "String" ->
            With(DecodeString(st), LAMBDA r : Stored(r, v, r.val))
      [] t.kind = "Array" -> decodeFixedArray(st, t, v)
      [] t.kind = "Slice" -> decodeArray(st, t, v)
      [] t.kind = "Struct" -> decodeStruct(st, t, v)
      [] t.kind = "Map" -> decodeMap(st, t, v)
      [] t.kind = "Interface" -> decodeInterface(st, t, v)
      [] OTHER -> DRaise(st, 0, ErrUnsupported, v)

\* the EncodeDecode probe of decode: on val, the value after indirection
decodeProbe(t, v) == Implements(t, v)

\* the handler decode takes for val: self, then the registry, then the kind
decodeDispatch(st, t, v) ==
    IF decodeProbe(t, v) THEN UserDecode(Dispatched(st, "self", Implementor(t, v)), t, v)
    ELSE IF t.name \in DOMAIN customPairs
    THEN PairDecode(customPairs[t.name], Dispatched(st, "registry", t), t, v)
    ELSE decodeKind(Dispatched(st, "kind", t), t, v)

decode(st, t, v) ==
    IF t.kind = "Invalid" THEN DRaise(st, 0, ErrInvalidType, v)
    ELSE With(DecIndirect(t, v, TRUE, 0), LAMBDA val :
             IF val.err # nil THEN DRaise(st, 0, val.err, v)
             ELSE With(decodeDispatch(st, val.t, val.v), LAMBDA r :
                      DRet(r.st, r.n, r.err, Wrap(r.val, val.depth))))

\* Decoder.Decode: the target must be a pointer, and not a nil one
Decode(st, t, v) ==
    IF t.kind = "Interface" /\ v = <<>> THEN DRaise(st, 0, "can't unmarshal to nil", v)
    ELSE IF t.kind # "Ptr" THEN DRaise(st, 0, "can't unmarshal to non-pointer value", v)
    ELSE IF v = <<>> THEN DRaise(st, 0, "can't unmarshal to unsettable", v)
    ELSE decode(st, t, v)

\* Unmarshal: a fresh Decoder bound to r
Unmarshal(r, t, v) == Decode(r, t, v)

----------------------------------------------------------------------------
(* The values marshalled and the streams unmarshalled                      *)

\* 64-bit patterns; a value of a narrower kind is the low bytes of one
Pat(a, b, c, d) == <<0, 0, 0, 0, a, b, c, d>>

IntPatterns ==
    { Pat(0, 0, 0, 0), Pat(0, 0, 0, 1), Pat(0, 0, 0, 127), Pat(0, 0, 0, 128),
      Pat(0, 0, 127, 255), Pat(0, 0, 128, 0), Pat(127, 255, 255, 255),
      Pat(128, 0, 0, 0),
      <<0, 0, 0, 1, 0, 0, 0, 0>>,
      <<255, 255, 255, 255, 255, 255, 255, 255>>,
      <<255, 255, 255, 255, 128, 0, 0, 0>> }

tArr3U8 == ArrayOf("[3]uint8", 3, tUint8)
tArr4U8 == ArrayOf("[4]uint8", 4, tUint8)
tArr2I16 == ArrayOf("[2]int16", 2, tInt16)
tSliceU8 == SliceOf("[]uint8", tUint8)
tSliceU32 == SliceOf("[]uint32", tUint32)
tSliceStr == SliceOf("[]string", tString)
tMap == MapOf("map[string]uint32", tString, tUint32)
tPtrU16 == PtrTo("*uint16", tUint16)
tPtrU32 == PtrTo("*uint32", tUint32)
tPtrP == PtrTo("*main.P", tP)
tPtrV == PtrTo("*main.V", tV)
tPtrPtrV == PtrTo("**main.V", tPtrV)
tSlicePP == SliceOf("[]*main.P", tPtrP)
tSlicePV == SliceOf("[]*main.V", tPtrV)
tSlicePPV == SliceOf("[]**main.V", tPtrPtrV)
\* struct { A int32; b int32; S string; P *uint16 }
tRec == StructOf("main.Rec", <<tInt32, tInt32, tString, tPtrU16>>,
                 <<TRUE, FALSE, TRUE, TRUE>>, "none")
\* struct { I interface{} }
tHolder == StructOf("main.Holder", <<tIface>>, <<TRUE>>, "none")

IntTypes == {tInt8, tInt16, tInt32, tInt64, tInt, tUint8, tUint16, tUint32, tUint64, tUint}

TV(t, v) == [t |-> t, v |-> v]

\* the text "hijkl..." cut to n bytes, and the octets 1..n
Str(n) == [i \in 1..n |-> 103 + i]

Octets(n) == [i \in 1..n |-> <<i>>]

U(n) == NatToU32(n)

\* integer values marshalled: every pattern as a value of every integer kind
IntSamples == IntTypes \X IntPatterns

\* the other values marshalled as the first value of a sink
Samples ==
    << TV(tBool, FALSE), TV(tBool, TRUE) >>
    \o [n \in 1..(MaxLen + 1) |-> TV(tString, Str(n - 1))]
    \o << TV(tSliceU8, Octets(0)), TV(tSliceU8, Octets(3)), TV(tSliceU8, Octets(MaxLen)),
          TV(tArr3U8, <<<<170>>, <<187>>, <<204>>>>),
          TV(tArr4U8, <<<<170>>, <<187>>, <<204>>, <<221>>>>),
          TV(tArr2I16, <<<<0, 1>>, <<255, 255>>>>),
          TV(tSliceU32, <<>>), TV(tSliceU32, <<U(10)>>), TV(tSliceU32, <<U(10), U(20)>>),
          TV(tSliceStr, <<Str(2), Str(1)>>),
          TV(tRec, <<U(1), U(7), Str(1), <<<<0, 7>>>>>>),
          TV(tRec, <<<<255, 255, 255, 255>>, U(0), Str(0), <<<<0, 0>>>>>>),
          TV(tRec, <<U(1), U(0), Str(3), <<>>>>),
          TV(tMap, <<>>),
          TV(tMap, << <<Str(1), U(1)>> >>),
          TV(tMap, << <<Str(1), U(1)>>, <<Str(2), U(2)>> >>),
          TV(tMap, << <<Str(2), U(2)>>, <<Str(1), U(1)>> >>),
          TV(tV, <<U(5)>>), TV(tP, <<U(5)>>), TV(tR, <<U(5)>>),
          TV(tPtrP, <<<<U(5)>>>>),
          TV(tSlicePP, << <<<<U(5)>>>> >>),
          TV(tSlicePV, << <<<<U(5)>>>> >>),
          TV(tSlicePPV, << << <<<<U(5)>>>> >> >>),
          TV(tSlicePP, << <<>> >>),
          TV(tPtrU32, <<U(9)>>), TV(tPtrU32, <<>>),
          TV(tBuf, <<Octets(MaxLen), Zeros(intSize), <<0>>>>),
          TV(tBuf, <<Octets(MaxLen), Low(Pat(0, 0, 0, 2), intSize), <<0>>>>),
          TV(tTime, << <<5>>, U(0) >>),
          TV(tTime, << <<5>>, U(500000000) >>),
          TV(tTime, << <<7>>, U(1) >>),
          TV(tHolder, << <<>> >>),
          TV(tHolder, << <<TV(tUint32, U(10))>> >>),
          TV(tHolder, << <<TV(tPtrU32, <<U(10)>>)>> >>),
          TV(tHolder, << <<TV(tPtrP, <<<<U(5)>>>>)>> >>),
          TV(tChan, <<>>),
          TV(tIface, <<>>) >>

\* what follows the first value on a sink that takes several
TailSamples ==
    << TV(tUint32, U(1)), TV(tString, Str(0)), TV(tString, Str(1)),
       TV(tSliceU32, <<U(10), U(20)>>), TV(tArr3U8, <<<<170>>, <<187>>, <<204>>>>) >>

RECURSIVE BaseOf(_)
\* the type the pointers of t lead to
BaseOf(t) == IF t.kind = "Ptr" THEN BaseOf(t.sub[1]) ELSE t

RECURSIVE Pointee(_, _)
\* the value the pointers of a value of type t lead to (none of them nil)
Pointee(t, v) == IF t.kind = "Ptr" THEN Pointee(t.sub[1], v[1]) ELSE v

\* the targets a value of type t is unmarshalled into: the zero value and, where
\* the zero value leaves something to the caller, targets the caller prepared
TargetsOf(t) ==
    <<Zero(t)>>
    \o (IF t.name = "main.Holder"
        THEN << << <<TV(tUint32, U(0))>> >>,
                << <<TV(tPtrU32, <<U(0)>>)>> >>,
                << <<TV(tPtrU32, <<>>)>> >>,
                << <<TV(tPtrP, <<<<U(0)>>>>)>> >> >>
        ELSE <<>>)
    \o (IF t.name = "main.Rec" THEN << <<U(0), U(3), Str(0), <<>>>> >> ELSE <<>>)

\* 4-byte words on the wire
WireWords ==
    { <<0, 0, 0, 0>>, <<0, 0, 0, 1>>, <<0, 0, 0, 2>>, <<0, 0, 0, 127>>, <<0, 0, 0, 128>>,
      <<0, 0, 0, 255>>, <<0, 0, 1, 0>>, <<0, 0, 127, 255>>, <<0, 0, 128, 0>>,
      <<0, 0, 255, 255>>, <<0, 1, 0, 0>>, <<127, 255, 255, 255>>, <<128, 0, 0, 0>>,
      <<255, 255, 255, 128>>, <<255, 255, 255, 127>>, <<255, 255, 128, 0>>,
      <<255, 255, 127, 255>>, <<255, 255, 255, 255>>, <<1, 0, 0, 0>> }

\* streams handed to the decoder as they are: single words, words cut short,
\* length-prefixed bodies (whole, cut short, with a length of 2^31 - 1 or more)
InjectStreams ==
    WireWords
    \cup { <<>>, <<0>>, <<0, 1>>, <<0, 0, 2>>, <<0, 0, 0, 2, 104>>,
           <<0, 0, 0, 2, 104, 105, 0, 0>>,
           <<0, 0, 0, 2, 104, 105, 9, 9>>,
           <<0, 0, 0, 3, 1, 2, 3, 0>>,
           <<0, 0, 0, 2, 104, 105>>,
           <<0, 0, 0, 2, 0, 0, 0, 10, 0, 0, 0, 20>>,
           <<0, 0, 0, 2, 0, 0, 0, 10, 0, 0>>,
           <<0, 0, 0, 1, 0, 0, 0, 1, 120, 0, 0, 0>>,
           <<0, 0, 0, 1, 0, 0, 0, 1, 120, 0, 0, 0, 0, 0, 0, 7>>,
           <<0, 0, 0, 1, 0, 0, 0, 1, 120, 0, 0, 0, 0, 1, 0, 0>>,
           <<192, 222, 0, 1, 0, 0, 0, 5>>,
           <<0, 0, 0, 2, 53, 90, 0, 0>>,
           <<0, 0, 0, 2, 53, 53, 0, 0>>,
           <<128, 0, 0, 0, 1, 2, 3, 4>>,
           <<255, 255, 255, 255, 1, 2, 3, 4>>,
           <<127, 255, 255, 255, 1, 2, 3, 4>> }

\* the types the injected streams are unmarshalled into
InjectTypes ==
    { tInt8, tInt16, tInt32, tInt, tUint8, tUint16, tUint32, tUint, tInt64, tUint64,
      tBool, tString, tSliceU8, tSliceU32, tArr3U8, tArr2I16, tRec, tMap, tBuf, tTime,
      tV, tR, tHolder, tChan }

\* the public primitive decoders called on an injected stream
Primitives == {"DecodeOpaque", "DecodeString", "DecodeBool", "DecodeInt", "DecodeUint"}

\* readers: bytes.Buffer, bytes.Reader, a reader that hands out one byte per
\* Read (iotest.OneByteReader) and one that hands out at most MaxChunk bytes
Readers ==
    { [chunk |-> 0, zeroEOF |-> FALSE],
      [chunk |-> 0, zeroEOF |-> TRUE],
      [chunk |-> 1, zeroEOF |-> FALSE],
      [chunk |-> MaxChunk, zeroEOF |-> FALSE] }

\* bytes the writer still accepts when Marshal is called: some, or all
MaxRoom == 6

Rooms == 0..MaxRoom \cup {-1}

----------------------------------------------------------------------------
(* The program: a registry, a sink that values are marshalled to, and a    *)
(* source that values are unmarshalled from.                               *)

NoCall ==
    [op |-> "none", t |-> InvalidT, in |-> <<>>, n |-> 0, err |-> nil, val |-> <<>>,
     log |-> <<>>, pos0 |-> 0, pos1 |-> 0]

Call(op, t, in, r, val, pos0, pos1) ==
    [op |-> op, t |-> t, in |-> in, n |-> r.n, err |-> r.err, val |-> val,
     log |-> r.st.log, pos0 |-> pos0, pos1 |-> pos1]

Closed == [mode |-> "none", data |-> <<>>, pos |-> 0, chunk |-> 0, zeroEOF |-> FALSE]

\* the codec's view of a stream for one call: the stream and an empty log
Bound(stream) == [f \in DOMAIN stream \cup {"log"} |-> IF f = "log" THEN <<>> ELSE stream[f]]

\* init() of the package: the two default entries
Init ==
    /\ intSize \in {4, 8}
    /\ customPairs = [name \in {"time.Time", "bytes.Buffer"} |->
                        IF name = "time.Time" THEN "timeEncDec" ELSE "byteBufEncDec"]
    /\ sink = [buf |-> <<>>, cap |-> -1]
    /\ sent = <<>>
    /\ source = Closed
    /\ recv = <<>>
    /\ last = NoCall

\* RegisterType(typeName, v): the last writer wins.  Registered before use.
RegisterType(typeName, codec) ==
    /\ sink.buf = <<>> /\ source.mode = "none" /\ last.op = "none"
    /\ typeName \notin DOMAIN customPairs
    /\ customPairs' = [name \in DOMAIN customPairs \cup {typeName} |->
                         IF name = typeName THEN codec ELSE customPairs[name]]
    /\ UNCHANGED <<intSize, sink, sent, source, recv, last>>

\* Marshal(w, v) on the sink, which accepts room more bytes
DoMarshal(t, v, room) ==
    /\ source.mode = "none"
    /\ Len(sent) < MaxMsgs
    /\ last.err = nil
    /\ LET w == Bound([sink EXCEPT !.cap = IF room < 0 THEN -1
                                          ELSE Len(sink.buf) + room])
           r == Marshal(w, t, v)
       IN  /\ sink' = [buf |-> r.st.buf, cap |-> r.st.cap]
           /\ sent' = IF r.err = nil
                      THEN Append(sent, [t |-> t, v |-> v, n |-> r.n, log |-> r.st.log])
                      ELSE sent
           /\ last' = Call("marshal", t, v, r, <<>>, Len(sink.buf), Len(r.st.buf))
    /\ UNCHANGED <<intSize, customPairs, source, recv>>

\* a reader is opened on the bytes the sink holds
Connect(rd) ==
    /\ source.mode = "none"
    /\ sent # <<>>
    /\ last.err = nil
    /\ source' = [mode |-> "roundtrip", data |-> sink.buf, pos |-> 0,
                  chunk |-> rd.chunk, zeroEOF |-> rd.zeroEOF]
    /\ UNCHANGED <<intSize, customPairs, sink, sent, recv, last>>

\* a reader is opened on bytes that come from elsewhere
Inject(data, rd) ==
    /\ source.mode = "none"
    /\ sink.buf = <<>> /\ last.op = "none"
    /\ source' = [mode |-> "inject", data |-> data, pos |-> 0,
                  chunk |-> rd.chunk, zeroEOF |-> rd.zeroEOF]
    /\ UNCHANGED <<intSize, customPairs, sink, sent, recv, last>>

\* Unmarshal(r, &x), x of type t holding cur
UnmarshalInto(t, cur) ==
    LET r == Unmarshal(Bound(source), PtrTo("*", t), <<cur>>)
    IN  /\ source' = [source EXCEPT !.pos = r.st.pos]
        /\ recv' = Append(recv, [t |-> t, v |-> r.val[1], n |-> r.n, err |-> r.err,
                                 adv |-> r.st.pos - source.pos])
        /\ last' = Call("unmarshal", t, cur, r, r.val[1], source.pos, r.st.pos)
        /\ UNCHANGED <<intSize, customPairs, sink, sent>>

\* the next value sent is unmarshalled into a target of its type
DoUnmarshalNext ==
    /\ source.mode = "roundtrip"
    /\ Len(recv) < Len(sent)
    /\ last.err = nil
    /\ \E k \in 1..Len(TargetsOf(BaseOf(sent[Len(recv) + 1].t))) :
          UnmarshalInto(BaseOf(sent[Len(recv) + 1].t),
                        TargetsOf(BaseOf(sent[Len(recv) + 1].t))[k])

\* an injected stream is unmarshalled into a target of some type
DoUnmarshalInjected(t, cur) ==
    /\ source.mode = "inject"
    /\ recv = <<>> /\ last.op = "none"
    /\ UnmarshalInto(t, cur)

\* a primitive decoder is called on an injected stream
DoDecodePrimitive(op) ==
    /\ source.mode = "inject"
    /\ recv = <<>> /\ last.op = "none"
    /\ LET r == CASE op = "DecodeOpaque" -> DecodeOpaque(Bound(source))
                  [] op = "DecodeString" -> DecodeString(Bound(source))
                  [] op = "DecodeBool" -> DecodeBool(Bound(source))
                  [] op = "DecodeInt" -> DecodeInt(Bound(source))
                  [] op = "DecodeUint" -> DecodeUint(Bound(source))
       IN  /\ source' = [source EXCEPT !.pos = r.st.pos]
           /\ last' = Call(op, InvalidT, <<>>, r, r.val, source.pos, r.st.pos)
    /\ UNCHANGED <<intSize, customPairs, sink, sent, recv>>

\* the registry holds entries of the caller
UserRegistered == DOMAIN customPairs # {"time.Time", "bytes.Buffer"}

\* A registry entry of the caller and the width of int are explored with the
\* types whose handling reads them: the registry is looked up by type name, the
\* width is read for Int and Uint only.
Drawn(t) ==
    /\ UserRegistered => BaseOf(t).name \in {"main.V", "main.R"}
    /\ intSize = 4 => BaseOf(t).name \in {"int", "uint", "bytes.Buffer", "[]uint32"}

\* a value is marshalled as the first of a sink, or after another
MarshalSample(room) ==
    \/ /\ sent = <<>>
       /\ \E s \in IntSamples :
             Drawn(s[1]) /\ DoMarshal(s[1], Low(s[2], KindBytes(s[1].kind)), room)
    \/ /\ sent = <<>>
       /\ \E k \in 1..Len(Samples) :
             Drawn(Samples[k].t) /\ DoMarshal(Samples[k].t, Samples[k].v, room)
    \/ /\ sent # <<>>
       /\ \E k \in 1..Len(TailSamples) :
             Drawn(TailSamples[k].t) /\ DoMarshal(TailSamples[k].t, TailSamples[k].v, room)

Next ==
    \/ \E name \in {"main.V", "main.R"} : RegisterType(name, "userPair")
    \/ /\ source.mode = "none" /\ Len(sent) < MaxMsgs /\ last.err = nil
       /\ \E room \in Rooms : MarshalSample(room)
    \/ \E rd \in Readers : Connect(rd)
    \/ /\ source.mode = "none" /\ sink.buf = <<>> /\ last.op = "none"
       /\ \E data \in InjectStreams, rd \in Readers : Inject(data, rd)
    \/ DoUnmarshalNext
    \/ /\ source.mode = "inject" /\ last.op = "none"
       /\ \E t \in InjectTypes : \E k \in 1..Len(TargetsOf(t)) :
             Drawn(t) /\ DoUnmarshalInjected(t, TargetsOf(t)[k])
    \/ /\ source.mode = "inject" /\ last.op = "none" /\ ~UserRegistered
       /\ \E op \in Primitives : DoDecodePrimitive(op)

Spec == Init /\ [][Next]_vars

----------------------------------------------------------------------------
(* Properties.  What they speak of:                                        *)

RECURSIVE Supported(_)
\* the shapes the codec handles structurally: integers of every width, bool,
\* string, fixed and variable sequences, records and maps of these, behind any
\* pointers; neither a type with methods of its own nor one in the registry
Supported(t) ==
    /\ t.self = "none"
    /\ t.name \notin DOMAIN customPairs
    /\ CASE t.kind \in IntKinds \cup {"Bool", "String"} -> TRUE
         [] t.kind \in {"Array", "Slice", "Ptr"} -> Supported(t.sub[1])
         [] t.kind = "Map" -> Supported(t.sub[1]) /\ Supported(t.sub[2])
         [] t.kind = "Struct" -> \A i \in 1..Len(t.sub) : t.vis[i] => Supported(t.sub[i])
         [] OTHER -> FALSE

RECURSIVE ContentEq(_, _, _)
\* a and b of type t are equal by content: a map whatever the order of its
\* entries, a record by its visible fields, a pointer by what it leads to
ContentEq(t, a, b) ==
    CASE t.kind \in {"Array", "Slice"} ->
            /\ Len(a) = Len(b)
            /\ \A i \in 1..Len(a) : ContentEq(t.sub[1], a[i], b[i])
      [] t.kind = "Struct" ->
            \A i \in 1..Len(t.sub) : t.vis[i] => ContentEq(t.sub[i], a[i], b[i])
      [] t.kind = "Map" ->
            /\ \A i \in 1..Len(a) : \E j \in 1..Len(b) :
                  a[i][1] = b[j][1] /\ ContentEq(t.sub[2], a[i][2], b[j][2])
            /\ \A j \in 1..Len(b) : \E i \in 1..Len(a) : a[i][1] = b[j][1]
      [] t.kind = "Ptr" ->
            /\ (a = <<>>) <=> (b = <<>>)
            /\ a # <<>> => ContentEq(t.sub[1], a[1], b[1])
      [] OTHER -> a = b

\* the reader hands out what is asked of it whenever it has it, as a
\* bytes.Buffer and a bytes.Reader do
WholeReads == source.chunk = 0

\* the call before this state was Unmarshal of the bytes Marshal produced
RoundTripped == last.op = "unmarshal" /\ source.mode = "roundtrip"

\* the value the i-th Marshal was given, behind its pointers
SentValue(i) == Pointee(sent[i].t, sent[i].v)

\* C1: a value of a supported shape, marshalled and then unmarshalled from a
\* bytes.Buffer into a zero-valued target of its type, comes back: Unmarshal
\* succeeds and the target equals the value by content.
C1_RoundTrip ==
    ( /\ RoundTripped
      /\ WholeReads /\ ~source.zeroEOF
      /\ \A i \in 1..Len(recv) : Supported(sent[i].t)
      /\ last.in = Zero(last.t) )
    => /\ last.err = nil
       /\ ContentEq(last.t, last.val, SentValue(Len(recv)))

\* C2: the byte count Marshal and Unmarshal return, on success and on failure, is
\* the number of bytes the call wrote to the sink, respectively read from the source.
C2_ByteCount ==
    last.op \in {"marshal", "unmarshal"} => last.n = last.pos1 - last.pos0

\* C3: values of supported shapes marshalled one after another to one sink are
\* recovered by as many Unmarshal calls on a reader of the sink's bytes: each
\* call succeeds, advances the reader by what the matching Marshal wrote and
\* yields the value, and after the last call no byte is left.
C3_Stream ==
    ( /\ source.mode = "roundtrip"
      /\ WholeReads
      /\ \A i \in 1..Len(sent) : Supported(sent[i].t) )
    => /\ \A i \in 1..Len(recv) :
             /\ recv[i].err = nil
             /\ recv[i].adv = sent[i].n
             /\ ContentEq(recv[i].t, recv[i].v, SentValue(i))
       /\ Len(recv) = Len(sent) => source.pos = Len(source.data)

RECURSIVE WrittenBefore(_, _)
\* the bytes the writes before the i-th event of a log put on the stream
WrittenBefore(log, i) ==
    IF i <= 1 THEN 0
    ELSE WrittenBefore(log, i - 1)
            + (IF log[i - 1].op = "write" THEN log[i - 1].n ELSE 0)

\* the last call was a Marshal that succeeded
Marshalled == last.op = "marshal" /\ last.err = nil

\* C4: after a Marshal that succeeds, the number of bytes written to the sink
\* (the count returned and the growth of the sink) is a multiple of 4, and
\* every padding byte written is zero.
C4_Padding ==
    Marshalled
    => /\ last.n % 4 = 0
       /\ (last.pos1 - last.pos0) % 4 = 0
       /\ \A i \in 1..Len(last.log) :
             last.log[i].tag = "pad"
             => \A j \in 1..last.log[i].n :
                   sink.buf[last.pos0 + WrittenBefore(last.log, i) + j] = 0

\* a record, map or sequence holding a string of a length that leaves three
\* bytes to the boundary was marshalled, and three bytes of padding were written
C4_Witness ==
    /\ Marshalled
    /\ last.t.kind \in {"Struct", "Map", "Slice"}
    /\ \E i \in 1..Len(last.log) : last.log[i].tag = "pad" /\ last.log[i].n = 3

\* the 4-byte word at the head of the injected stream
Wire == Take(source.data, 4)

\* the last call was Unmarshal of an injected stream, of four bytes or more,
\* into a target of one of the kinds
InjectedInto(kinds) ==
    /\ source.mode = "inject"
    /\ Len(source.data) >= 4
    /\ last.op = "unmarshal"
    /\ last.t.kind \in kinds

\* the 32-bit value of a word is in the range of an integer kind of 8 or 16 bits
InRange(kind, w) ==
    CASE kind = "Int8" -> U32ToInt32(w) >= -128 /\ U32ToInt32(w) <= 127
      [] kind = "Int16" -> U32ToInt32(w) >= -32768 /\ U32ToInt32(w) <= 32767
      [] kind = "Uint8" -> w[1] = 0 /\ w[2] = 0 /\ w[3] = 0
      [] kind = "Uint16" -> w[1] = 0 /\ w[2] = 0

\* C5: Unmarshal of a 4-byte wire integer into a target of 8 or 16 bits, signed
\* or unsigned: outside the target's range it fails with the overflow error and
\* reports 4 bytes; inside it succeeds, reports 4 bytes and stores the value.
C5_NarrowInt ==
    InjectedInto({"Int8", "Int16", "Uint8", "Uint16"})
    => IF InRange(last.t.kind, Wire)
       THEN /\ last.err = nil
            /\ last.n = 4
            /\ last.val = Low(Wire, KindBytes(last.t.kind))
       ELSE /\ last.err \in {ErrSignedOverflow, ErrUnsignedOverflow}
            /\ last.n = 4

\* the last call decoded a variable-length opaque or a string from an injected
\* stream, by the primitive or through the bytes.Buffer codec of the registry
DecodedOpaque ==
    /\ source.mode = "inject"
    /\ Len(source.data) >= 4
    /\ \/ last.op \in {"DecodeOpaque", "DecodeString"}
       \/ last.op = "unmarshal" /\ last.t.name \in {"bytes.Buffer", "string"}

\* the reads of a log
Reads(log) == SelectSeq(log, LAMBDA e : e.op = "read")

\* C6: decoding a variable-length opaque or a string whose length prefix is
\* above 2^31 - 1 fails with the length error after the read of the prefix: the
\* body is neither read nor allocated.
C6_LengthOverflow ==
    ( /\ DecodedOpaque
      /\ WholeReads
      /\ Wire[1] >= 128 )
    => /\ last.err = ErrMaxSlice
       /\ Len(Reads(last.log)) = 1
       /\ last.pos1 - last.pos0 = 4

\* C7: when a Read of the stream returns fewer bytes than asked for, with an
\* error or without, the decode call fails.
C7_ShortRead ==
    ( /\ last.op \notin {"none", "marshal"}
      /\ \E i \in 1..Len(last.log) :
            last.log[i].op = "read" /\ last.log[i].n < last.log[i].req )
    => last.err # nil

\* C8: DecodeBool, and Unmarshal into a bool, of a 4-byte wire integer: 0 is
\* false and 1 is true; any other value fails with the invalid-boolean error,
\* reports 4 bytes and leaves the target as it was.
C8_Bool ==
    ( \/ InjectedInto({"Bool"})
      \/ source.mode = "inject" /\ Len(source.data) >= 4 /\ last.op = "DecodeBool" )
    => CASE Wire = <<0, 0, 0, 0>> -> last.err = nil /\ last.val = FALSE
         [] Wire = <<0, 0, 0, 1>> -> last.err = nil /\ last.val = TRUE
         [] OTHER -> /\ last.err = ErrInvalidBool
                     /\ last.n = 4
                     /\ last.op = "unmarshal" => last.val = last.in

\* the choices of the dispatcher in a log
Dispatches(log) == SelectSeq(log, LAMBDA e : e.op = "dispatch")

\* the handler the precedence gives a value of a type, after indirection: its
\* own methods, else the registry, else the kind.  A type whose methods are on
\* the pointer receiver has them for the values that are reached through a
\* pointer; either handler is let pass for it here.
ByPrecedence(e) ==
    CASE e.self = "value" -> e.tag = "self"
      [] e.self = "pointer" ->
            e.tag \in {"self", IF e.name \in DOMAIN customPairs THEN "registry" ELSE "kind"}
      [] OTHER -> e.tag = (IF e.name \in DOMAIN customPairs THEN "registry" ELSE "kind")

\* C9: the encode and the decode dispatcher take the handler the precedence
\* gives (self, then registry, then kind), and Unmarshal of what Marshal wrote
\* takes, value by value, the handlers Marshal took.
C9_Precedence ==
    /\ \A i \in 1..Len(last.log) :
          last.log[i].op = "dispatch" => ByPrecedence(last.log[i])
    /\ ( /\ RoundTripped
         /\ WholeReads
         /\ Len(recv) = 1
         /\ last.in = Zero(last.t)
         /\ last.err = nil )
       => Dispatches(last.log) = Dispatches(sent[1].log)

\* C10: in a Marshal, an Unmarshal or a primitive decode, nothing follows the
\* first error: no read, no write, no further element, and the call returns it.
C10_FirstError ==
    \A i \in 1..Len(last.log) :
        last.log[i].err # nil => i = Len(last.log) /\ last.err = last.log[i].err

\* Marshal of a map failed on a short write after writes that succeeded
C10_Witness ==
    /\ last.op = "marshal"
    /\ last.t.kind = "Map"
    /\ last.err = ErrShortWrite
    /\ Len(last.log) > 3
    /\ last.n > 4

\* the last call was Unmarshal into a record whose one field is a holder
IntoHolder == last.op = "unmarshal" /\ last.t.name = "main.Holder"

\* the holder of the target as the caller handed it over: <<>> when nothing is
\* assigned to it, else the concrete type and value
HeldBefore == last.in[1]

\* what is assigned to the holder can be stored into: a pointer that is not nil
SettableHeld ==
    /\ HeldBefore # <<>>
    /\ HeldBefore[1].t.kind = "Ptr"
    /\ HeldBefore[1].v # <<>>

\* the dispatcher, entered for the record, was entered again for the concrete
\* value assigned to the holder (by its kind, the registry or its own methods)
RecursedIntoHeld ==
    \E i \in 2..Len(Dispatches(last.log)) :
        Dispatches(last.log)[i].name = BaseOf(HeldBefore[1].t).name

\* C11: Unmarshal into a holder with nothing assigned returns the nil-interface
\* error, reads nothing from the stream and does not panic; with a settable
\* concrete value assigned, the dispatcher is entered again for that value.
C11_NilInterface ==
    IntoHolder
    => /\ HeldBefore = <<>>
          => /\ last.err = ErrNilInterfaceDec
             /\ last.n = 0
             /\ Reads(last.log) = <<>>
             /\ last.pos1 = last.pos0
       /\ SettableHeld => RecursedIntoHeld

\* the last call went to the record handler: its value, behind any pointers, is
\* a struct that the dispatcher handled by its kind
OfRecord ==
    /\ last.op \in {"marshal", "unmarshal"}
    /\ BaseOf(last.t).kind = "Struct"
    /\ Dispatches(last.log) # <<>>
    /\ Dispatches(last.log)[1].tag = "kind"
    /\ Dispatches(last.log)[1].name = BaseOf(last.t).name

\* s is the head of w
IsPrefix(s, w) == Len(s) <= Len(w) /\ s = Take(w, Len(s))

\* the bytes Marshal writes for a value of its own, on a sink that takes them all
AloneBytes(t, v) == Marshal([buf |-> <<>>, cap |-> -1, log |-> <<>>], t, v).st.buf

RECURSIVE VisibleBytes(_, _, _)
\* the encodings of the visible fields of a record, from field i on, in
\* declaration order, one after the other
VisibleBytes(t, v, i) ==
    IF i > Len(t.sub) THEN <<>>
    ELSE (IF t.vis[i] THEN AloneBytes(t.sub[i], v[i]) ELSE <<>>) \o VisibleBytes(t, v, i + 1)

RECURSIVE FieldByField(_, _, _, _)
\* the record, the position of the reader and the error after Unmarshal into
\* each visible field of the record v in turn, from field i on, in declaration
\* order, up to the first that fails
FieldByField(src, t, v, i) ==
    IF i > Len(t.sub) THEN [v |-> v, pos |-> src.pos, err |-> nil]
    ELSE IF ~t.vis[i] THEN FieldByField(src, t, v, i + 1)
    ELSE With(Unmarshal(src, PtrTo("*", t.sub[i]), <<v[i]>>), LAMBDA r :
             IF r.err # nil
             THEN [v |-> [v EXCEPT ![i] = r.val[1]], pos |-> r.st.pos, err |-> r.err]
             ELSE FieldByField(r.st, t, [v EXCEPT ![i] = r.val[1]], i + 1))

\* the bytes the last Marshal put on the sink
WrittenBytes == SubSeq(sink.buf, last.pos0 + 1, last.pos1)

\* C12: Marshal of a record writes the encodings of its visible fields in
\* declaration order and nothing else (all of them when it succeeds, a head of
\* them when a write fails); Unmarshal into a record reads the visible fields in
\* that order, as Unmarshal into each in turn would, and leaves every field
\* that is not visible as it was, whether it succeeds or fails.
C12_Record ==
    OfRecord
    => /\ last.op = "marshal"
          => With(VisibleBytes(BaseOf(last.t), Pointee(last.t, last.in), 1), LAMBDA w :
                 /\ IsPrefix(WrittenBytes, w)
                 /\ last.err = nil => WrittenBytes = w)
       /\ last.op = "unmarshal"
          => /\ \A i \in 1..Len(last.t.sub) : ~last.t.vis[i] => last.val[i] = last.in[i]
             /\ With(FieldByField(Bound([source EXCEPT !.pos = last.pos0]), last.t, last.in, 1),
                     LAMBDA f :
                        /\ last.val = f.v
                        /\ last.pos1 = f.pos
                        /\ last.err = f.err)

\* a record with a hidden field of 7 was marshalled and unmarshalled, without
\* error, into a record whose hidden field was 3 and whose pointer was nil
C12_Witness ==
    /\ RoundTripped
    /\ OfRecord
    /\ last.t.name = "main.Rec"
    /\ last.err = nil
    /\ last.in[2] = U(3)
    /\ last.in[4] = <<>>
    /\ sent[Len(recv)].v[2] = U(7)
    /\ last.n = 16

====
